---- MODULE Spec2Model ----
(***************************************************************************)
(* Model of src/main.py: the Reolink camera video downloader.              *)
(*                                                                         *)
(* main() parses and validates the two time arguments and then runs        *)
(* download_videos(), one linear chain of awaited library calls:           *)
(* get_host_data, one status-only VOD query, one VOD file query per        *)
(* reported day inside the range, then per recording download_vod, the     *)
(* copy of the stream to a file, close, and finally logout.                *)
(*                                                                         *)
(* The camera library (reolink_aio) is the environment: each of its calls  *)
(* either returns a value drawn from a small set or raises.  host.logout() *)
(* is taken to return: the library catches its own errors there.  The      *)
(* days the camera reports are calendar days, so datetime(year, month,     *)
(* day) at lines 78-79 does not raise.  An interrupt from the keyboard     *)
(* (lines 244-246) is not modelled.                                        *)
(*                                                                         *)
(* Strings are sequences of tokens.  Digits are single characters; the     *)
(* camera's file names are built from "a" (any ordinary character), "/"    *)
(* (the path separator of PosixPath) and ".mp4" (the four characters of    *)
(* the extension, kept together: no other token holds one of them).        *)
(***************************************************************************)
EXTENDS Integers, Sequences, FiniteSets, TLC

\* ---------------------------------------------------------------- bounds
\* Most recordings the per-day queries return in total.
MaxFiles == 2
\* Most non-empty chunks one download stream yields.
MaxChunks == 1
\* Longest camera file name (in tokens) given to the file name construction.
MaxNameLen == 4

\* ------------------------------------------------------------- datetimes
\* A datetime is <<year, month, day, hour, minute, second>>; None is <<>>.
None == <<>>

RECURSIVE LexLess(_, _)
\* Python compares datetimes field by field, most significant first.
LexLess(a, b) ==
    IF a = <<>> \/ b = <<>> THEN FALSE
    ELSE IF Head(a) # Head(b) THEN Head(a) < Head(b)
    ELSE LexLess(Tail(a), Tail(b))

DtLT(a, b) == LexLess(a, b)
DtLE(a, b) == a = b \/ LexLess(a, b)
DtMax(a, b) == IF DtLT(a, b) THEN b ELSE a
DtMin(a, b) == IF DtLT(b, a) THEN b ELSE a

IsLeap(y) == (y % 4 = 0 /\ y % 100 # 0) \/ y % 400 = 0
DaysInMonth(y, m) ==
    IF m = 2 THEN (IF IsLeap(y) THEN 29 ELSE 28)
    ELSE IF m \in {4, 6, 9, 11} THEN 30 ELSE 31

\* ------------------------------------------------------ parse_datetime
\* A date string is its numbers and the literal text between them:
\* "2024-01-31 12:00" is [nums |-> <<2024,1,31,12,0>>,
\*                        lits |-> <<"-","-"," ",":">>].
\* A format is the literal text between its directives, which are always
\* %Y %m %d [%H %M [%S]] in this order.
formats ==
    << <<"-", "-", " ", ":", ":">>,
       <<"-", "-", " ", ":">>,
       <<"-", "-">>,
       <<"/", "/", " ", ":", ":">>,
       <<"/", "/", " ", ":">>,
       <<"/", "/">> >>

\* datetime.strptime(date_string, fmt): the literals match, every field is
\* in its range, the day exists; missing time fields are 0.
FieldOr0(nums, i) == IF i <= Len(nums) THEN nums[i] ELSE 0
StrptimeOK(s, fmt) ==
    /\ s.lits = fmt
    /\ Len(s.nums) = Len(fmt) + 1
    /\ s.nums[1] \in 1..9999
    /\ s.nums[2] \in 1..12
    /\ s.nums[3] \in 1..DaysInMonth(s.nums[1], s.nums[2])
    /\ FieldOr0(s.nums, 4) \in 0..23
    /\ FieldOr0(s.nums, 5) \in 0..59
    /\ FieldOr0(s.nums, 6) \in 0..59
Strptime(s) ==
    <<s.nums[1], s.nums[2], s.nums[3],
      FieldOr0(s.nums, 4), FieldOr0(s.nums, 5), FieldOr0(s.nums, 6)>>

\* parse_datetime: the first format that parses, else ValueError (None here).
parse_datetime(date_string) ==
    IF \E i \in 1..Len(formats) : StrptimeOK(date_string, formats[i])
    THEN Strptime(date_string)
    ELSE None

\* The --start-time / --end-time arguments tried.
ArgDates == { <<2024, 1, 31>>, <<2024, 2, 1>>, <<2024, 2, 30>> }
ArgHM == { <<0, 0>> }
ArgHMS == { <<23, 59, 59>> }
DateArgs ==
    { [nums |-> d, lits |-> <<sep, sep>>] : d \in ArgDates, sep \in {"-", "/"} }
    \cup { [nums |-> d \o t, lits |-> <<sep, sep, " ", ":">>] :
             d \in ArgDates, t \in ArgHM, sep \in {"-", "/"} }
    \cup { [nums |-> d \o t, lits |-> <<sep, sep, " ", ":", ":">>] :
             d \in ArgDates, t \in ArgHMS, sep \in {"-", "/"} }
    \cup { [nums |-> <<2024, 1, 31, 12, 0, 0>>, lits |-> <<"-", "-", "T", ":", ":">>],
           [nums |-> <<2024, 1, 31>>, lits |-> <<"-", "/">>],
           [nums |-> <<31, 1, 2024>>, lits |-> <<".", ".">>],
           [nums |-> <<2024, 1, 31, 24, 0>>, lits |-> <<"-", "-", " ", ":">>],
           [nums |-> <<>>, lits |-> <<"yesterday">>] }

\* ------------------------------------------------------------- strings
Digits == <<"0", "1", "2", "3", "4", "5", "6", "7", "8", "9">>
Digit(n) == Digits[n + 1]
RECURSIVE Str(_)
\* str(n) of a natural number, as an f-string formats it.
Str(n) == IF n < 10 THEN <<Digit(n)>> ELSE Str(n \div 10) \o <<Digit(n % 10)>>
Pad2(n) == <<Digit((n \div 10) % 10), Digit(n % 10)>>
Pad4(n) == Pad2(n \div 100) \o Pad2(n % 100)

\* start_time_obj.strftime("%Y%m%d_%H%M%S")
Strftime(dt) ==
    Pad4(dt[1]) \o Pad2(dt[2]) \o Pad2(dt[3]) \o <<"_">>
    \o Pad2(dt[4]) \o Pad2(dt[5]) \o Pad2(dt[6])

EndsWith(s, suffix) ==
    /\ Len(s) >= Len(suffix)
    /\ SubSeq(s, Len(s) - Len(suffix) + 1, Len(s)) = suffix

RECURSIVE StripSlashes(_)
StripSlashes(s) ==
    IF s # <<>> /\ s[Len(s)] = "/" THEN StripSlashes(SubSeq(s, 1, Len(s) - 1)) ELSE s
LastSlash(s) ==
    LET at == { i \in 1..Len(s) : s[i] = "/" }
    IN  IF at = {} THEN 0 ELSE CHOOSE i \in at : \A j \in at : j <= i
\* Path(file_name).name on PosixPath: the last component, trailing
\* separators dropped; "" for the root.
PathName(s) ==
    LET t == StripSlashes(s) IN SubSeq(t, LastSlash(t) + 1, Len(t))

\* ------------------------------------------------- filename construction
Mp4 == <<".mp4">>
Recording(idx) == <<"recording_">> \o Str(idx)

\* lines 111-114: the base name, with one trailing ".mp4" removed.
CleanFileName(file_name, idx) ==
    LET clean_file_name ==
            IF file_name # <<>> THEN PathName(file_name) ELSE Recording(idx)
    IN  IF EndsWith(clean_file_name, Mp4)
        THEN SubSeq(clean_file_name, 1, Len(clean_file_name) - 1)
        ELSE clean_file_name

\* line 116
TimestampStr(start_time_obj, idx) ==
    IF start_time_obj # None THEN Strftime(start_time_obj) ELSE Recording(idx)

\* line 117: f"{timestamp_str}_{clean_file_name}.mp4"
OutputFilename(vod_file, idx) ==
    TimestampStr(vod_file.start_time, idx) \o <<"_">>
    \o CleanFileName(vod_file.file_name, idx) \o Mp4

\* line 118: output_dir / output_filename
OutputDir == <<"downloads">>
OutputPath(vod_file, idx) == OutputDir \o <<"/">> \o OutputFilename(vod_file, idx)

\* ---------------------------------------------------------- environment
\* What the camera may report: the channels, the months and days holding
\* recordings, and the recordings of a day.  The first recording spans
\* midnight, so the queries of both days return it; the second shares its
\* start second and base name in another directory.
ChannelLists == { <<>>, <<0>> }
January == [year |-> 2024, month |-> 1, days |-> <<30, 31>>]
February == [year |-> 2024, month |-> 2, days |-> <<1>>]
StatusLists == { <<>>, <<January>>, <<February>>, <<January, February>> }
VodFiles ==
    { [file_name |-> <<"a", "/", "a", ".mp4">>, start_time |-> <<2024, 1, 31, 23, 59, 30>>],
      [file_name |-> <<"/", "a", ".mp4">>, start_time |-> <<2024, 1, 31, 23, 59, 30>>],
      [file_name |-> <<>>, start_time |-> None] }

SeqsUpTo(S, n) == UNION { [1..k -> S] : k \in 0..n }
\* The results of one per-day query: up to n recordings, none given twice.
DayResults(n) ==
    { r \in SeqsUpTo(VodFiles, n) : \A i, j \in DOMAIN r : i # j => r[i] # r[j] }
Tokens == { "a", "/", ".mp4" }
Names == SeqsUpTo(Tokens, MaxNameLen)

\* ---------------------------------------------------------------- state
VARIABLES
    pc,               \* where the program is
    start_time,       \* main: parsed --start-time, None before
    end_time,         \* main: parsed --end-time, None before
    parse_error,      \* main: parse_datetime raised ValueError
    exit_status,      \* process exit status, -1 while running
    dir_created,      \* output_dir.mkdir has run
    host_constructed, \* Host(ip, username, password) has run
    channels,         \* host.channels
    status_list,      \* result of the status-only query
    si, di,           \* position of the two for loops over status_list
    all_vod_files,    \* the collected recordings
    idx,              \* enumerate(all_vod_files, 1)
    exc,              \* an exception is propagating
    open_streams,     \* download streams obtained and not yet closed
    files,            \* the output directory: path -> what was written
    calls,            \* history: every operation attempted, in order
    completed,        \* history: paths of the files written to the end
    nm                \* the file name construction applied to one input

vars == <<pc, start_time, end_time, parse_error, exit_status, dir_created,
          host_constructed, channels, status_list, si, di, all_vod_files,
          idx, exc, open_streams, files, calls, completed, nm>>

mainVars == <<start_time, end_time, parse_error>>
loopVars == <<channels, status_list, si, di, all_vod_files, idx>>
diskVars == <<open_streams, files, completed>>

NoName == [file_name |-> <<>>, start_time |-> None, idx |-> 0, out |-> <<>>]

Init ==
    /\ pc = "parse"
    /\ start_time = None
    /\ end_time = None
    /\ parse_error = FALSE
    /\ exit_status = -1
    /\ dir_created = FALSE
    /\ host_constructed = FALSE
    /\ channels = <<>>
    /\ status_list = <<>>
    /\ si = 0
    /\ di = 0
    /\ all_vod_files = <<>>
    /\ idx = 0
    /\ exc = FALSE
    /\ open_streams = {}
    /\ files = <<>>
    /\ calls = <<>>
    /\ completed = {}
    /\ nm = NoName

\* One entry of the history.
Call(op, ok) ==
    [op |-> op, ok |-> ok, idx |-> 0, pos |-> <<>>, day |-> <<>>,
     start |-> <<>>, end |-> <<>>, name |-> <<>>, result |-> <<>>]
Log(c) == calls' = Append(calls, c)

\* ----------------------------------------------------------------- main
\* lines 218-223: both arguments parse.
ParseArgs ==
    /\ pc = "parse"
    /\ \E a \in DateArgs, b \in DateArgs :
         /\ parse_datetime(a) # None
         /\ parse_datetime(b) # None
         /\ start_time' = parse_datetime(a)
         /\ end_time' = parse_datetime(b)
    /\ pc' = "validate"
    /\ UNCHANGED <<parse_error, exit_status, dir_created, host_constructed,
                   loopVars, exc, diskVars, calls, nm>>

\* lines 218-223: the first argument that does not parse ends the program;
\* end_time is not assigned when start_time did not parse.
ParseArgsError ==
    /\ pc = "parse"
    /\ \E a \in DateArgs, b \in DateArgs :
         /\ parse_datetime(a) = None \/ parse_datetime(b) = None
         /\ start_time' = parse_datetime(a)
         /\ end_time' = None
    /\ parse_error' = TRUE
    /\ exit_status' = 1
    /\ pc' = "exit"
    /\ UNCHANGED <<dir_created, host_constructed, loopVars, exc, diskVars,
                   calls, nm>>

\* Variant of BadRange: equal times pass (> for >=).
BadRangeStrict == DtLT(end_time, start_time)

\* line 226: start_time >= end_time
BadRange == ~DtLT(start_time, end_time)

\* lines 226-228
ValidateError ==
    /\ pc = "validate"
    /\ BadRange
    /\ exit_status' = 1
    /\ pc' = "exit"
    /\ UNCHANGED <<mainVars, dir_created, host_constructed, loopVars, exc,
                   diskVars, calls, nm>>

\* lines 226-234: the range is valid, download_videos is called.
ValidateOK ==
    /\ pc = "validate"
    /\ ~BadRange
    /\ pc' = "mkdir"
    /\ UNCHANGED <<mainVars, exit_status, dir_created, host_constructed,
                   loopVars, exc, diskVars, calls, nm>>

\* lines 247-249: download_videos raised.
MainExcept ==
    /\ pc = "main_except"
    /\ exit_status' = 1
    /\ pc' = "exit"
    /\ UNCHANGED <<mainVars, dir_created, host_constructed, loopVars, exc,
                   diskVars, calls, nm>>

\* lines 234-243, 253: download_videos returned, main returns.
MainReturn ==
    /\ pc = "main_return"
    /\ exit_status' = 0
    /\ pc' = "exit"
    /\ UNCHANGED <<mainVars, dir_created, host_constructed, loopVars, exc,
                   diskVars, calls, nm>>

\* ------------------------------------------------------ download_videos
\* line 37: output_dir.mkdir(parents=True, exist_ok=True)
Mkdir ==
    /\ pc = "mkdir"
    /\ dir_created' = TRUE
    /\ pc' = "host"
    /\ UNCHANGED <<mainVars, exit_status, host_constructed, loopVars, exc,
                   diskVars, calls, nm>>

\* line 37 raises (before the try block): the exception reaches main.
MkdirRaise ==
    /\ pc = "mkdir"
    /\ exc' = TRUE
    /\ pc' = "main_except"
    /\ UNCHANGED <<mainVars, exit_status, dir_created, host_constructed,
                   loopVars, diskVars, calls, nm>>

\* lines 41-43: the Host object, and the try block is entered.
HostInit ==
    /\ pc = "host"
    /\ host_constructed' = TRUE
    /\ pc' = "get_host_data"
    /\ UNCHANGED <<mainVars, exit_status, dir_created, loopVars, exc,
                   diskVars, calls, nm>>

\* Variant of GetHostData: the test for an empty channel list is missing,
\* host.channels[0] raises IndexError.
GetHostDataNoCheck ==
    /\ pc = "get_host_data"
    /\ \E chs \in ChannelLists :
         /\ channels' = chs
         /\ exc' = (chs = <<>>)
         /\ pc' = IF chs = <<>> THEN "except" ELSE "request_status"
    /\ Log(Call("get_host_data", TRUE))
    /\ UNCHANGED <<mainVars, exit_status, dir_created, host_constructed,
                   status_list, si, di, all_vod_files, idx, diskVars, nm>>

\* lines 45-54: get_host_data returns; without a channel the function
\* returns (through finally).
GetHostData ==
    /\ pc = "get_host_data"
    /\ \E chs \in ChannelLists :
         /\ channels' = chs
         /\ pc' = IF chs = <<>> THEN "logout" ELSE "request_status"
    /\ Log(Call("get_host_data", TRUE))
    /\ UNCHANGED <<mainVars, exit_status, dir_created, host_constructed,
                   status_list, si, di, all_vod_files, idx, exc, diskVars, nm>>

\* A library call or a file operation raises inside the outer try block
\* and outside the inner one: control goes to the except clause.
Raise(c) ==
    /\ Log(c)
    /\ exc' = TRUE
    /\ pc' = "except"
    /\ UNCHANGED <<mainVars, exit_status, dir_created, host_constructed,
                   loopVars, diskVars, nm>>

\* line 45 raises
GetHostDataRaise ==
    /\ pc = "get_host_data"
    /\ Raise(Call("get_host_data", FALSE))

StatusCall(ok) ==
    [Call("request_status", ok) EXCEPT !.start = start_time, !.end = end_time]

\* lines 60-72: the status-only query returns; an empty list ends the run,
\* any other starts the loop over its days.
RequestStatus ==
    /\ pc = "request_status"
    /\ \E sl \in StatusLists :
         /\ status_list' = sl
         /\ pc' = IF sl = <<>> THEN "logout" ELSE "days"
         /\ si' = IF sl = <<>> THEN si ELSE 1
         /\ di' = IF sl = <<>> THEN di ELSE 1
    /\ Log(StatusCall(TRUE))
    /\ UNCHANGED <<mainVars, exit_status, dir_created, host_constructed,
                   channels, all_vod_files, idx, exc, diskVars, nm>>

\* line 60 raises
RequestStatusRaise ==
    /\ pc = "request_status"
    /\ Raise(StatusCall(FALSE))

\* lines 73-79: the day the loops are at, and its first and last second.
InDays == pc = "days" /\ si <= Len(status_list) /\ di <= Len(status_list[si].days)
Day == <<status_list[si].year, status_list[si].month, status_list[si].days[di]>>
day_start == Day \o <<0, 0, 0>>
day_end == Day \o <<23, 59, 59>>

\* Variant of OutOfRange: only the end of the range is tested.
OutOfRangeEndOnly == DtLT(end_time, day_start)

\* line 82: the day lies outside the requested range.
OutOfRange == DtLT(end_time, day_start) \/ DtLT(day_end, start_time)

\* lines 73, 76: the inner loop is exhausted, the outer one takes the next
\* status.
NextStatus ==
    /\ pc = "days"
    /\ si <= Len(status_list)
    /\ di > Len(status_list[si].days)
    /\ si' = si + 1
    /\ di' = 1
    /\ UNCHANGED <<mainVars, exit_status, dir_created, host_constructed,
                   channels, status_list, all_vod_files, idx, exc, pc,
                   diskVars, calls, nm>>

\* lines 82-83: continue
SkipDay ==
    /\ InDays
    /\ OutOfRange
    /\ di' = di + 1
    /\ UNCHANGED <<mainVars, exit_status, dir_created, host_constructed,
                   channels, status_list, si, all_vod_files, idx, exc, pc,
                   diskVars, calls, nm>>

\* lines 86-91: the arguments of the per-day query.
DayCall(ok, day_files) ==
    [Call("request_day", ok) EXCEPT
        !.pos = <<si, di>>,
        !.day = Day,
        !.start = DtMax(day_start, start_time),
        !.end = DtMin(day_end, end_time),
        !.result = day_files]

\* Variant of Extend: the list is assigned, not extended.
ExtendReplace(list, day_files) == day_files

\* lines 93-94: all_vod_files.extend(day_files)
Extend(list, day_files) == list \o day_files

\* lines 85-95: the per-day query returns the day's recordings.
RequestDay ==
    /\ InDays
    /\ ~OutOfRange
    /\ \E day_files \in DayResults(MaxFiles - Len(all_vod_files)) :
         /\ all_vod_files' = Extend(all_vod_files, day_files)
         /\ Log(DayCall(TRUE, day_files))
    /\ di' = di + 1
    /\ UNCHANGED <<mainVars, exit_status, dir_created, host_constructed,
                   channels, status_list, si, idx, exc, pc, diskVars, nm>>

\* line 86 raises
RequestDayRaise ==
    /\ InDays
    /\ ~OutOfRange
    /\ Raise(DayCall(FALSE, <<>>))

\* Variant of DaysDone: the downloads start as soon as a day returned
\* recordings, before the loop over the days is over.
DaysDoneEarly ==
    /\ pc = "days"
    /\ si > Len(status_list) \/ all_vod_files # <<>>
    /\ pc' = IF all_vod_files = <<>> THEN "logout" ELSE "download_vod"
    /\ idx' = IF all_vod_files = <<>> THEN idx ELSE 1
    /\ UNCHANGED <<mainVars, exit_status, dir_created, host_constructed,
                   channels, status_list, si, di, all_vod_files, exc,
                   diskVars, calls, nm>>

\* lines 97-104: the loops are done; without recordings the function
\* returns, else the download loop starts.
DaysDone ==
    /\ pc = "days"
    /\ si > Len(status_list)
    /\ pc' = IF all_vod_files = <<>> THEN "logout" ELSE "download_vod"
    /\ idx' = IF all_vod_files = <<>> THEN idx ELSE 1
    /\ UNCHANGED <<mainVars, exit_status, dir_created, host_constructed,
                   channels, status_list, si, di, all_vod_files, exc,
                   diskVars, calls, nm>>

\* lines 104-118: the recording the download loop is at, and its path.
InDownloads == idx >= 1 /\ idx <= Len(all_vod_files)
vod_file == all_vod_files[idx]
output_path == OutputPath(vod_file, idx)

DownloadCall(ok) ==
    [Call("download_vod", ok) EXCEPT !.idx = idx, !.name = vod_file.file_name]
FileCall(op, ok) ==
    [Call(op, ok) EXCEPT !.idx = idx, !.name = output_path]

\* lines 123-126: download_vod returns a stream.
DownloadVod ==
    /\ pc = "download_vod"
    /\ InDownloads
    /\ Log(DownloadCall(TRUE))
    /\ open_streams' = open_streams \cup {idx}
    /\ pc' = "open"
    /\ UNCHANGED <<mainVars, exit_status, dir_created, host_constructed,
                   loopVars, exc, files, completed, nm>>

\* Variant of DownloadVodRaise: the failed recording is skipped and the
\* loop goes on.
DownloadVodRaiseSkip ==
    /\ pc = "download_vod"
    /\ InDownloads
    /\ Log(DownloadCall(FALSE))
    /\ idx' = idx + 1
    /\ UNCHANGED <<mainVars, exit_status, dir_created, host_constructed,
                   channels, status_list, si, di, all_vod_files, exc, pc,
                   diskVars, nm>>

\* line 123 raises
DownloadVodRaise ==
    /\ pc = "download_vod"
    /\ InDownloads
    /\ Raise(DownloadCall(FALSE))

\* line 142: the loop is exhausted, the function returns.
DownloadsDone ==
    /\ pc = "download_vod"
    /\ idx > Len(all_vod_files)
    /\ pc' = "logout"
    /\ UNCHANGED <<mainVars, exit_status, dir_created, host_constructed,
                   loopVars, exc, diskVars, calls, nm>>

\* The file at `path` becomes `f`.
Put(path, f) ==
    [p \in DOMAIN files \cup {path} |-> IF p = path THEN f ELSE files[p]]

\* Variant of RaiseInner: no finally clause, the stream is not closed.
RaiseInnerNoClose(c) ==
    /\ Log(c)
    /\ exc' = TRUE
    /\ pc' = "except"
    /\ UNCHANGED <<mainVars, exit_status, dir_created, host_constructed,
                   loopVars, diskVars, nm>>

\* An exception inside the inner try block: its finally clause runs.
RaiseInner(c) ==
    /\ Log(c)
    /\ exc' = TRUE
    /\ pc' = "close"
    /\ UNCHANGED <<mainVars, exit_status, dir_created, host_constructed,
                   loopVars, diskVars, nm>>

\* line 130: open(output_path, "wb") creates or truncates the file.
OpenFile ==
    /\ pc = "open"
    /\ files' = Put(output_path, [idx |-> idx, chunks |-> 0, complete |-> FALSE])
    /\ Log(FileCall("open", TRUE))
    /\ pc' = "read"
    /\ UNCHANGED <<mainVars, exit_status, dir_created, host_constructed,
                   loopVars, exc, open_streams, completed, nm>>

\* line 130 raises
OpenFileRaise ==
    /\ pc = "open"
    /\ RaiseInner(FileCall("open", FALSE))

\* line 132: the stream yields a chunk.
ReadChunk ==
    /\ pc = "read"
    /\ files[output_path].chunks < MaxChunks
    /\ Log(FileCall("read", TRUE))
    /\ pc' = "write"
    /\ UNCHANGED <<mainVars, exit_status, dir_created, host_constructed,
                   loopVars, exc, diskVars, nm>>

\* lines 132-137: the stream is at its end; the with block closes the file.
ReadEnd ==
    /\ pc = "read"
    /\ files' = Put(output_path, [files[output_path] EXCEPT !.complete = TRUE])
    /\ completed' = completed \cup {output_path}
    /\ Log(FileCall("read", TRUE))
    /\ pc' = "close"
    /\ UNCHANGED <<mainVars, exit_status, dir_created, host_constructed,
                   loopVars, exc, open_streams, nm>>

\* line 132 raises
ReadRaise ==
    /\ pc = "read"
    /\ RaiseInner(FileCall("read", FALSE))

\* line 135: f.write(chunk)
WriteChunk ==
    /\ pc = "write"
    /\ files' = Put(output_path,
                    [files[output_path] EXCEPT !.chunks = files[output_path].chunks + 1])
    /\ Log(FileCall("write", TRUE))
    /\ pc' = "read"
    /\ UNCHANGED <<mainVars, exit_status, dir_created, host_constructed,
                   loopVars, exc, open_streams, completed, nm>>

\* line 135 raises
WriteRaise ==
    /\ pc = "write"
    /\ RaiseInner(FileCall("write", FALSE))

\* lines 138-140: vod_download.close() returns; a pending exception goes
\* on to the except clause, else the loop takes the next recording.
CloseStream ==
    /\ pc = "close"
    /\ Log(FileCall("close", TRUE))
    /\ open_streams' = open_streams \ {idx}
    /\ pc' = IF exc THEN "except" ELSE "download_vod"
    /\ idx' = IF exc THEN idx ELSE idx + 1
    /\ UNCHANGED <<mainVars, exit_status, dir_created, host_constructed,
                   channels, status_list, si, di, all_vod_files, exc, files,
                   completed, nm>>

\* line 140 raises
CloseStreamRaise ==
    /\ pc = "close"
    /\ Log(FileCall("close", FALSE))
    /\ open_streams' = open_streams \ {idx}
    /\ exc' = TRUE
    /\ pc' = "except"
    /\ UNCHANGED <<mainVars, exit_status, dir_created, host_constructed,
                   loopVars, files, completed, nm>>

\* Variant of Except: logout is not in a finally clause, the exception
\* leaves without it.
ExceptNoLogout ==
    /\ pc = "except"
    /\ pc' = "main_except"
    /\ UNCHANGED <<mainVars, exit_status, dir_created, host_constructed,
                   loopVars, exc, diskVars, calls, nm>>

\* lines 144-146: print the error and raise it again.
Except ==
    /\ pc = "except"
    /\ pc' = "logout"
    /\ UNCHANGED <<mainVars, exit_status, dir_created, host_constructed,
                   loopVars, exc, diskVars, calls, nm>>

\* lines 147-149: finally: await host.logout(); then the function returns
\* or the exception leaves it.
Logout ==
    /\ pc = "logout"
    /\ Log(Call("logout", TRUE))
    /\ pc' = IF exc THEN "main_except" ELSE "main_return"
    /\ UNCHANGED <<mainVars, exit_status, dir_created, host_constructed,
                   loopVars, exc, diskVars, nm>>

Next ==
    \/ ParseArgs \/ ParseArgsError \/ ValidateError \/ ValidateOK
    \/ MainExcept \/ MainReturn
    \/ Mkdir \/ MkdirRaise \/ HostInit
    \/ GetHostData \/ GetHostDataRaise
    \/ RequestStatus \/ RequestStatusRaise
    \/ NextStatus \/ SkipDay \/ RequestDay \/ RequestDayRaise \/ DaysDone
    \/ DownloadVod \/ DownloadVodRaise \/ DownloadsDone
    \/ OpenFile \/ OpenFileRaise
    \/ ReadChunk \/ ReadEnd \/ ReadRaise
    \/ WriteChunk \/ WriteRaise
    \/ CloseStream \/ CloseStreamRaise
    \/ Except \/ Logout

Spec == Init /\ [][Next]_vars

\* ------------------------------------- the file name construction alone
\* OutputFilename applied to every camera file name of at most MaxNameLen
\* tokens, with and without a start time, at every index of the loop.
InitName ==
    /\ pc = "name"
    /\ start_time = None
    /\ end_time = None
    /\ parse_error = FALSE
    /\ exit_status = -1
    /\ dir_created = FALSE
    /\ host_constructed = FALSE
    /\ channels = <<>>
    /\ status_list = <<>>
    /\ si = 0
    /\ di = 0
    /\ all_vod_files = <<>>
    /\ idx = 0
    /\ exc = FALSE
    /\ open_streams = {}
    /\ files = <<>>
    /\ calls = <<>>
    /\ completed = {}
    /\ \E n \in Names, t \in {None, <<2024, 1, 31, 23, 59, 30>>}, i \in 1..MaxFiles :
         nm = [file_name |-> n, start_time |-> t, idx |-> i, out |-> <<>>]

\* lines 106-117 for one recording
BuildName ==
    /\ pc = "name"
    /\ nm' = [nm EXCEPT !.out = OutputFilename(nm, nm.idx)]
    /\ pc' = "named"
    /\ UNCHANGED <<mainVars, exit_status, dir_created, host_constructed,
                   loopVars, exc, diskVars, calls>>

NextName == BuildName

SpecName == InitName /\ [][NextName]_vars

\* ------------------------------------------------- reading the history
Idx(op) == { i \in DOMAIN calls : calls[i].op = op }
Has(op) == Idx(op) # {}
Of(op) == SelectSeq(calls, LAMBDA c : c.op = op)
Failed == { i \in DOMAIN calls : ~calls[i].ok }
LastIs(op) == calls # <<>> /\ calls[Len(calls)].op = op

RECURSIVE Concat(_)
Concat(ss) == IF ss = <<>> THEN <<>> ELSE Head(ss) \o Concat(Tail(ss))
\* Every recording the per-day queries returned, in the order returned.
Returned == Concat([k \in 1..Len(Of("request_day")) |-> Of("request_day")[k].result])

\* The phase of the run an operation belongs to.
Phase(op) ==
    CASE op = "get_host_data" -> 1
      [] op = "request_status" -> 2
      [] op = "request_day" -> 3
      [] op \in {"download_vod", "open", "read", "write", "close"} -> 4
      [] op = "logout" -> 5

Finished == pc = "exit"
ReturnedNormally == pc = "main_return" \/ (pc = "exit" /\ exit_status = 0)
DaysFinished == status_list # <<>> /\ si > Len(status_list)

\* C1: the library calls of a run come in the order get_host_data, one
\* status-only query, the per-day queries, the downloads, logout: no
\* per-day query before the status-only query has returned, no download_vod
\* before the loop over the days has finished, and no query after the
\* first download_vod.  (The phases never go back from one call to the
\* next, hence not between any two calls.)
CallOrder ==
    /\ \A i \in 1..(Len(calls) - 1) :
         Phase(calls[i].op) <= Phase(calls[i + 1].op)
    /\ \A op \in {"get_host_data", "request_status", "logout"} :
         Cardinality(Idx(op)) <= 1
    /\ calls # <<>> => calls[1].op = "get_host_data"
    /\ Has("request_day") =>
         \E i \in Idx("request_status") :
            calls[i].ok /\ \A j \in Idx("request_day") : i < j
    /\ Has("download_vod") =>
         /\ DaysFinished
         /\ \A j \in Idx("request_day") : calls[j].ok
    /\ \A i \in Idx("download_vod"), j \in Idx("request_status") \cup Idx("request_day") :
         j < i

\* Both phases happened: two per-day queries, then two downloads.
CallOrderWitness ==
    /\ Finished
    /\ Cardinality(Idx("request_day")) >= 2
    /\ Cardinality(Idx("download_vod")) >= 2
    /\ LastIs("logout")

\* download_videos is running, or has left a trace.
InDownloadVideos ==
    pc \in {"mkdir", "host", "get_host_data", "request_status", "days",
            "download_vod", "open", "read", "write", "close", "except", "logout"}
Touched == dir_created \/ host_constructed \/ calls # <<>> \/ InDownloadVideos
ValidRange ==
    /\ ~parse_error
    /\ start_time # None
    /\ end_time # None
    /\ DtLT(start_time, end_time)
\* C2: download_videos runs (the directory is made, the camera contacted)
\* only with both arguments parsed and start_time < end_time; an argument
\* that does not parse, or start_time >= end_time, ends the program with
\* status 1, with no Host, no library call and no directory.
OnlyValidRangeRuns ==
    /\ Touched => ValidRange
    /\ (Finished /\ ~ValidRange) =>
         /\ exit_status = 1
         /\ ~dir_created
         /\ ~host_constructed
         /\ calls = <<>>

\* Equal times were rejected.
EqualTimesRejected ==
    /\ Finished
    /\ ~parse_error
    /\ start_time # None
    /\ start_time = end_time
    /\ exit_status = 1

\* A path directly inside output_dir, ending in .mp4.
IsMp4InOutputDir(path) ==
    /\ Len(path) > Len(OutputDir) + 1
    /\ SubSeq(path, 1, Len(OutputDir) + 1) = OutputDir \o <<"/">>
    /\ \A k \in (Len(OutputDir) + 2)..Len(path) : path[k] # "/"
    /\ EndsWith(path, Mp4)

\* Position in the history of the operation `op` on recording k.
At(op, k) == CHOOSE i \in Idx(op) : calls[i].idx = k

\* C3: on a run that ends without an exception, download_vod was called
\* once per recording the per-day queries returned, in the order they were
\* returned, and each call was followed by the writing of one .mp4 file in
\* output_dir.
EveryRecordingDownloaded ==
    ReturnedNormally =>
        LET dl == Of("download_vod")
            op == Of("open")
        IN  /\ Len(dl) = Len(Returned)
            /\ \A k \in 1..Len(dl) :
                 /\ dl[k].ok
                 /\ dl[k].idx = k
                 /\ dl[k].name = Returned[k].file_name
            /\ Len(op) = Len(dl)
            /\ \A k \in 1..Len(op) :
                 /\ op[k].ok
                 /\ op[k].idx = k
                 /\ IsMp4InOutputDir(op[k].name)
                 /\ op[k].name \in completed
                 /\ At("download_vod", k) < At("open", k)
                 /\ k < Len(dl) => At("open", k) < At("download_vod", k + 1)

\* Two days returned one recording each, and both were downloaded.
TwoDaysDownloaded ==
    /\ Finished
    /\ exit_status = 0
    /\ Len(Of("download_vod")) = 2
    /\ \E i, j \in Idx("request_day") :
         i # j /\ Len(calls[i].result) = 1 /\ Len(calls[j].result) = 1

\* C4: once the Host exists and the try block is entered, logout is called
\* exactly once on every way out of download_videos, and nothing is called
\* after it.
LogoutOnceAndLast ==
    /\ Cardinality(Idx("logout")) <= 1
    /\ \A i \in Idx("logout") : i = Len(calls)
    /\ (host_constructed /\ pc \in {"main_return", "main_except", "exit"}) =>
         Cardinality(Idx("logout")) = 1

\* The stream close raised, and logout still came last.
LogoutAfterCloseRaised ==
    /\ Finished
    /\ \E i \in Idx("close") : ~calls[i].ok
    /\ LastIs("logout")

\* The closed intervals [a1, a2] and [b1, b2] share an instant: then an end
\* of one of them lies in both.
Within(t, a, b) == DtLE(a, t) /\ DtLE(t, b)
Intersect(a1, a2, b1, b2) ==
    \E t \in {a1, a2, b1, b2} : Within(t, a1, a2) /\ Within(t, b1, b2)

\* C5: every per-day query asks for a window [start, end] with
\* start_time <= start <= end <= end_time that lies within the day being
\* processed, and a reported day that does not intersect
\* [start_time, end_time] is not queried.
DayWindows ==
    \A i \in Idx("request_day") :
        LET c == calls[i]
            st == status_list[c.pos[1]]
        IN  /\ c.day = <<st.year, st.month, st.days[c.pos[2]]>>
            /\ DtLE(start_time, c.start)
            /\ DtLE(c.start, c.end)
            /\ DtLE(c.end, end_time)
            /\ DtLE(c.day \o <<0, 0, 0>>, c.start)
            /\ DtLE(c.end, c.day \o <<23, 59, 59>>)
            /\ Intersect(c.day \o <<0, 0, 0>>, c.day \o <<23, 59, 59>>,
                         start_time, end_time)

\* The positions <<si, di>> of the days the status list reports.
DaysReported ==
    UNION { { <<s, d>> : d \in DOMAIN status_list[s].days } : s \in DOMAIN status_list }

\* A window was cut at both ends by the requested range, and a reported
\* day outside the range was passed over.
DayWindowCut ==
    /\ DaysFinished
    /\ \E i \in Idx("request_day") :
         /\ calls[i].start = start_time
         /\ calls[i].start # calls[i].day \o <<0, 0, 0>>
    /\ \E i \in Idx("request_day") :
         /\ calls[i].end = end_time
         /\ calls[i].end # calls[i].day \o <<23, 59, 59>>
    /\ \E p \in DaysReported : \A i \in Idx("request_day") : calls[i].pos # p

Closes(k) == Cardinality({ i \in Idx("close") : calls[i].idx = k })

\* C6: every stream a successful download_vod returned is closed exactly
\* once, before the next download_vod and before logout, also when opening
\* the file, reading or writing raised; never are two streams open.
StreamsClosedOnce ==
    /\ Cardinality(open_streams) <= 1
    /\ \A i \in Idx("download_vod") :
         LET k == calls[i].idx
         IN  IF ~calls[i].ok THEN k \notin open_streams /\ Closes(k) = 0
             ELSE \/ /\ k \in open_streams
                     /\ Closes(k) = 0
                     /\ idx = k
                     /\ pc \in {"open", "read", "write", "close"}
                  \/ /\ k \notin open_streams
                     /\ Closes(k) = 1
    /\ \A i \in Idx("close") :
         \E j \in Idx("download_vod") :
            j < i /\ calls[j].ok /\ calls[j].idx = calls[i].idx
    /\ pc \in {"download_vod", "except", "logout", "main_return",
               "main_except", "exit"} => open_streams = {}
    /\ Has("logout") => open_streams = {}

\* Opening the file, a read and a write each raised in some run of two
\* downloads, and the stream was closed.
StreamClosedAfterRaise ==
    /\ Finished
    /\ Len(Of("download_vod")) = 2
    /\ \E i \in Failed :
         /\ calls[i].op \in {"open", "read", "write"}
         /\ calls[i].idx = 2
         /\ Closes(2) = 1
         /\ Closes(1) = 1

\* The three empty results.
NoChannels ==
    channels = <<>> /\ \E i \in Idx("get_host_data") : calls[i].ok
NoStatus ==
    status_list = <<>> /\ \E i \in Idx("request_status") : calls[i].ok
NoRecordings ==
    DaysFinished /\ Failed = {} /\ Returned = <<>>
\* C7: no channel, an empty status list, or no recording in any day ends
\* the run normally: no further query or download is made, no file is
\* written, download_videos returns, and logout is called.
EmptyResults ==
    /\ NoChannels => ~Has("request_status") /\ ~Has("request_day")
    /\ NoStatus => ~Has("request_day")
    /\ (NoChannels \/ NoStatus \/ NoRecordings) =>
         /\ ~Has("download_vod")
         /\ DOMAIN files = {}
         /\ ~exc
         /\ pc \notin {"except", "main_except"}
         /\ Finished => exit_status = 0 /\ LastIs("logout")

\* Days were queried, none had a recording, and the program ended.
NoRecordingsFound ==
    /\ Finished
    /\ NoRecordings
    /\ Cardinality(Idx("request_day")) >= 2

\* What holds of the history once an operation raised.
AfterFailure ==
    /\ \A i \in Failed, j \in DOMAIN calls :
         i < j => calls[j].op \in {"close", "logout"}
    /\ \A op \in {"get_host_data", "request_status", "request_day",
                   "download_vod", "open", "close", "logout"} :
         \A i, j \in Idx(op) :
            i # j => (calls[i].idx # calls[j].idx \/ calls[i].pos # calls[j].pos)
    /\ (Failed # {} /\ pc = "main_except") => LastIs("logout")
    /\ (Failed # {} /\ Finished) => exit_status = 1 /\ LastIs("logout")
    /\ completed \subseteq DOMAIN files

NoDoubleExtension ==
    pc = "named" =>
        LET ts == TimestampStr(nm.start_time, nm.idx)
        IN  /\ Len(nm.out) >= Len(ts) + 2
            /\ SubSeq(nm.out, 1, Len(ts) + 1) = ts \o <<"_">>
            /\ EndsWith(nm.out, Mp4)
            /\ ~EndsWith(nm.out, Mp4 \o Mp4)
            /\ \A k \in DOMAIN nm.out : nm.out[k] # "/"

\* C10: two different entries of the collected list are never written to
\* the same path, so a successful run leaves as many files as recordings.
DistinctOutputPaths ==
    /\ \A i, j \in Idx("open") : i # j => calls[i].name # calls[j].name
    /\ (Finished /\ exit_status = 0) =>
         Cardinality(DOMAIN files) = Len(all_vod_files)

====
